---- MODULE Spec2Model ----
(***************************************************************************)
(* State-machine model of the constant-product AMM pool of                 *)
(* xPro-Web3-server (src/amm.rs; src/lib.rs repeats the same handlers).    *)
(*                                                                         *)
(* Widths.  TLC's integers are 32-bit, so the machine words of the code    *)
(* are modelled at a reduced width that keeps their relations:             *)
(*   u64  -> an unsigned word of WordBits bits (U64_MAX = 2^WordBits - 1)  *)
(*   u128 -> twice that width: a product of two words never overflows it   *)
(*   f64  -> a binary float with a MantBits-bit significand, MantBits <    *)
(*           WordBits as 53 < 64, round-to-nearest-even                    *)
(* `as u64` truncates modulo 2^WordBits, checked_* yield None on overflow, *)
(* and .unwrap() of None is a panic.                                       *)
(* The worked scenario of the specification uses amounts up to 10^9; it is *)
(* run under ScenarioSpec, where the word is as wide as TLC's integers     *)
(* (wide = TRUE) and the amounts are small enough for every product.       *)
(*                                                                         *)
(* Instructions.  One action models one instruction: Anchor's account      *)
(* validation, the handler of src/amm.rs run on the in-memory copy of the  *)
(* pool, and the write-back of that copy, which happens only when the      *)
(* handler returns Ok (an Err or a panic discards the instruction).        *)
(* The token and system programs are collaborators: each transfer, mint    *)
(* or burn request either succeeds or fails (fail_at names the request     *)
(* that fails, 0 for none).  The direct debit of the SOL vault's lamports   *)
(* in remove_liquidity and swap_tokens_for_sol is such a request too.      *)
(*                                                                         *)
(* Specifications.  Spec runs the instructions of src/amm.rs and LibSpec   *)
(* those of the meme_launchpad program of src/lib.rs, translated on their  *)
(* own; ScenarioSpec runs the swaps on the specification's worked pool;    *)
(* InterleavedSpec takes each instruction in steps (load, requests,        *)
(* write-back) with several callers; VaultSpec follows the balances of the *)
(* vault accounts next to the pool's reserves; ProtocolSpec runs the two   *)
(* instructions on the ProtocolState account of src/lib.rs.                *)
(***************************************************************************)
EXTENDS Integers, Sequences, FiniteSets, TLC

\* ------------------------------------------------------------------ bounds
WordBits == 14
MantBits == 11
MaxSteps == 3

\* --------------------------------------------------------- program constants
FEE_NUMERATOR == 3
FEE_DENOMINATOR == 1000
\* The same constants as src/lib.rs declares them for its own handlers.
LIB_FEE_NUMERATOR == 3
LIB_FEE_DENOMINATOR == 1000

\* ------------------------------------------------------------------- state
\* pool: the stored AmmPool account; lp_balance: each user's units of the
\* pool's liquidity-share mint; last: the record of the last instruction;
\* initialized_count: how many initialize_pool instructions have succeeded;
\* program: the deployed source file; steps: instructions run so far;
\* wide: whether the run uses the full-size word of ScenarioSpec;
\* inflight: per user, the instruction that has loaded the pool account and
\* not yet returned (InterleavedSpec); serial: the pool obtained by running
\* the returned instructions whole, one after the other;
\* vaults: what the pool's token vault and SOL vault hold, and the token
\* account the last instruction credited (VaultSpec);
\* protocol: the stored ProtocolState account of src/lib.rs and the record
\* of the last instruction on it (ProtocolSpec).
VARIABLES pool, lp_balance, last, initialized_count, program, wide,
          inflight, serial, vaults, protocol, steps

vars == <<pool, lp_balance, last, initialized_count, program, wide,
          inflight, serial, vaults, protocol, steps>>

\* The largest u64: 2^WordBits - 1, or the largest integer TLC holds.
U64_MAX == IF wide THEN 2147483647 ELSE 2^WordBits - 1

\* The result of a checked_* operation that overflowed or divided by zero.
None == -1

\* ------------------------------------------------------------------ inputs
\* The source file whose instructions are deployed: src/amm.rs, or the
\* meme_launchpad program of src/lib.rs, which declares the same five pool
\* instructions under its own names.
Programs == {"amm", "lib"}
Users == {"u1", "u2"}
\* Seeds of initialize (sol, token): a zero on either side, a tiny pool, a
\* pair whose product is one below a power of two (127 * 129 = 2^14 - 1),
\* a pool with one unit of SOL against many tokens, and a pool large enough
\* for swaps that pay a fee.
SeedPairs ==
    {<<0, 1>>, <<1, 0>>, <<1, 2>>, <<127, 129>>, <<1, 1000>>,
     <<1000, 4000>>}
\* Primary amounts of add/remove/swap: zero, an amount whose fee rounds to
\* zero, one whose fee is 3, and the largest word.
Amounts == {0, 1, 1000, U64_MAX}
\* Caller-supplied minimum outputs and maximum inputs.
MinBounds == {0, 300}
MaxBounds == {0, U64_MAX}
\* The liquidity-share mint passed to remove_liquidity: the pool's own, or
\* any other mint the caller controls.
LpMints == {"lp_mint", "other_mint"}
\* Where an instruction's requests to the token and system programs fail:
\* 0 for nowhere, k for the k-th request.
FailPoints == {0, 1}


\* ------------------------------------------------------- integer arithmetic
\* u64::checked_add / checked_sub
checked_add(a, b) == IF a > U64_MAX - b THEN None ELSE a + b
checked_sub(a, b) == IF a < b THEN None ELSE a - b

\* `x as u64` of a u128 value
AsU64(x) == IF x <= U64_MAX THEN x ELSE x % (U64_MAX + 1)

\* (a as u128).checked_mul(b as u128).unwrap().checked_div(c as u128): the
\* product of two u64 values always fits u128; the quotient is None for c = 0.
\* (variant: the quotient rounded up)
MulDivCeil(a, b, c) == IF c = 0 THEN None ELSE (a * b + c - 1) \div c
\* the code's quotient, truncated.  floor(a * b / c) is computed as
\* a * (b div c) + floor(a * (b mod c) / c) with b the larger factor, which
\* is the same number and needs no room for the whole product.
MulDiv(a, b, c) ==
    IF c = 0 THEN None
    ELSE IF a <= b THEN a * (b \div c) + (a * (b % c)) \div c
    ELSE b * (a \div c) + (b * (a % c)) \div c

RECURSIVE BitLen(_)
BitLen(n) == IF n = 0 THEN 0 ELSE 1 + BitLen(n \div 2)

RECURSIVE ISqrtBetween(_, _, _)
\* lo * lo <= x < hi * hi
ISqrtBetween(x, lo, hi) ==
    IF hi - lo <= 1 THEN lo
    ELSE LET mid == (lo + hi) \div 2
         IN IF mid * mid <= x THEN ISqrtBetween(x, mid, hi)
            ELSE ISqrtBetween(x, lo, mid)

\* The exact integer floor of the square root.
ISqrt(x) == ISqrtBetween(x, 0, 2^WordBits + 2)

\* ------------------------------------------------------------ f64 arithmetic
\* Round a non-negative integer to MantBits significant bits, ties to even:
\* the value of `n as f64` and of every f64 result.
RoundToMant(n) ==
    IF n < 2^MantBits THEN n
    ELSE LET u == 2^(BitLen(n) - MantBits)
             q == n \div u
             r == n % u
         IN IF 2 * r < u THEN q * u
            ELSE IF 2 * r > u THEN (q + 1) * u
            ELSE IF q % 2 = 0 THEN q * u ELSE (q + 1) * u

\* a as f64 * b as f64
F64Mul(a, b) == RoundToMant(RoundToMant(a) * RoundToMant(b))

\* x.sqrt() as u64, for an f64 x holding a non-negative integer: the correctly
\* rounded square root, then truncated toward zero and saturated at u64::MAX.
F64SqrtAsU64(x) ==
    LET s == ISqrt(x)
        L == BitLen(s)
        y == IF s * s = x /\ L <= MantBits THEN s
             ELSE IF L <= MantBits
             THEN \* the float's spacing below s + 1 is 2 / d
                  LET d == 2^(MantBits - L + 1)
                  IN IF x * d * d > (d * (s + 1) - 1) * (d * (s + 1) - 1)
                     THEN s + 1 ELSE s
             ELSE \* the float's spacing is u >= 2: the nearest multiple of u
                  LET u == 2^(L - MantBits)
                      q == s \div u
                      m == q * u + u \div 2
                  IN IF x < m * m THEN q * u
                     ELSE IF x > m * m THEN (q + 1) * u
                     ELSE IF q % 2 = 0 THEN q * u ELSE (q + 1) * u
    IN IF y > U64_MAX THEN U64_MAX ELSE y

\* ----------------------------------------------------------------- the pool
\* The AmmPool account before it is created: no data.
NoPool ==
    [token_mint |-> "none", lp_mint |-> "none", sol_vault |-> "none",
     token_vault |-> "none", sol_reserve |-> 0, token_reserve |-> 0,
     lp_supply |-> 0, bump |-> 0, is_initialized |-> FALSE]

\* What a handler returns: its result, the in-memory pool as it stands at the
\* return, and the amounts it computed (0 when the handler returned earlier).
Ret(result, mem, fee_amount, sol_amount, token_amount, lp_amount) ==
    [result |-> result, mem |-> mem, fee_amount |-> fee_amount,
     sol_amount |-> sol_amount, token_amount |-> token_amount,
     lp_amount |-> lp_amount]

\* The fee of a swap: input * FEE_NUMERATOR / FEE_DENOMINATOR, truncated.
\* (variant: no fee charged)
SwapFeeNone(amount) == 0
\* the code's fee
SwapFee(amount) == AsU64(MulDiv(amount, FEE_NUMERATOR, FEE_DENOMINATOR))

\* The input that is priced: amount.checked_sub(fee_amount).
\* (variant: the whole input priced)
AfterFeeIgnored(amount, fee_amount) == amount
\* the code's post-fee input
AfterFee(amount, fee_amount) == checked_sub(amount, fee_amount)

\* require!(amount > 0, InvalidAmount)
\* (variant: a zero amount let through)
IsPositiveIgnored(amount) == TRUE
\* the code's check
IsPositive(amount) == amount > 0

\* require!(amount >= minimum, SlippageExceeded)
\* (variant: the bound not enforced)
MeetsMinimumIgnored(amount, minimum) == TRUE
\* the code's check
MeetsMinimum(amount, minimum) == amount >= minimum

\* The input-side reserve after a swap: reserve.checked_add(amount), the
\* whole input, fee included.
\* (variant: the fee routed out of the pool)
ReserveAfterInputLessFee(reserve, amount) ==
    checked_add(reserve, amount - SwapFee(amount))
\* the code's update
ReserveAfterInput(reserve, amount) == checked_add(reserve, amount)

\* The constant-product output for a post-fee input against the reserves
\* (None when the denominator is zero).
\* (variant: rounded up)
SwapOutputCeil(after_fee, in_reserve, out_reserve) ==
    MulDivCeil(after_fee, out_reserve, in_reserve + after_fee)
\* the code's output
SwapOutput(after_fee, in_reserve, out_reserve) ==
    MulDiv(after_fee, out_reserve, in_reserve + after_fee)

swap_sol_for_tokens(p, sol_amount, min_token_amount, fail_at) ==
    IF ~IsPositive(sol_amount)
    THEN Ret("InvalidAmount", p, 0, sol_amount, 0, 0)
    ELSE IF ~p.is_initialized
    THEN Ret("PoolNotInitialized", p, 0, sol_amount, 0, 0)
    ELSE
    LET fee_amount == SwapFee(sol_amount)
        sol_amount_after_fee == AfterFee(sol_amount, fee_amount)
    IN
    IF sol_amount_after_fee = None
    THEN Ret("Panic", p, fee_amount, sol_amount, 0, 0)
    ELSE
    LET quotient == SwapOutput(sol_amount_after_fee, p.sol_reserve,
                               p.token_reserve)
    IN
    IF quotient = None THEN Ret("Panic", p, fee_amount, sol_amount, 0, 0)
    ELSE
    LET token_amount == AsU64(quotient) IN
    IF ~MeetsMinimum(token_amount, min_token_amount)
    THEN Ret("SlippageExceeded", p, fee_amount, sol_amount, token_amount, 0)
    ELSE IF ~(token_amount < p.token_reserve)
    THEN Ret("InsufficientLiquidity", p, fee_amount, sol_amount,
             token_amount, 0)
    ELSE IF fail_at \in {1, 2}
    THEN Ret("TransferFailed", p, fee_amount, sol_amount, token_amount, 0)
    ELSE
    LET new_sol == ReserveAfterInput(p.sol_reserve, sol_amount)
        new_token == checked_sub(p.token_reserve, token_amount)
    IN
    IF new_sol = None
    THEN Ret("Panic", p, fee_amount, sol_amount, token_amount, 0)
    ELSE IF new_token = None
    THEN Ret("Panic", [p EXCEPT !.sol_reserve = new_sol], fee_amount,
             sol_amount, token_amount, 0)
    ELSE Ret("Ok",
             [p EXCEPT !.sol_reserve = new_sol, !.token_reserve = new_token],
             fee_amount, sol_amount, token_amount, 0)

\* (variant: the reserves not exchanged, tokens priced as if they were SOL)
swap_tokens_for_sol_unmirrored(p, token_amount, min_sol_amount, fail_at) ==
    swap_sol_for_tokens(p, token_amount, min_sol_amount, fail_at)
\* the code's handler
swap_tokens_for_sol(p, token_amount, min_sol_amount, fail_at) ==
    IF ~IsPositive(token_amount)
    THEN Ret("InvalidAmount", p, 0, 0, token_amount, 0)
    ELSE IF ~p.is_initialized
    THEN Ret("PoolNotInitialized", p, 0, 0, token_amount, 0)
    ELSE
    LET fee_amount == SwapFee(token_amount)
        token_amount_after_fee == AfterFee(token_amount, fee_amount)
    IN
    IF token_amount_after_fee = None
    THEN Ret("Panic", p, fee_amount, 0, token_amount, 0)
    ELSE
    LET quotient == SwapOutput(token_amount_after_fee, p.token_reserve,
                               p.sol_reserve)
    IN
    IF quotient = None THEN Ret("Panic", p, fee_amount, 0, token_amount, 0)
    ELSE
    LET sol_amount == AsU64(quotient) IN
    IF ~MeetsMinimum(sol_amount, min_sol_amount)
    THEN Ret("SlippageExceeded", p, fee_amount, sol_amount, token_amount, 0)
    ELSE IF ~(sol_amount < p.sol_reserve)
    THEN Ret("InsufficientLiquidity", p, fee_amount, sol_amount,
             token_amount, 0)
    ELSE IF fail_at \in {1, 2}
    THEN Ret("TransferFailed", p, fee_amount, sol_amount, token_amount, 0)
    ELSE
    LET new_sol == checked_sub(p.sol_reserve, sol_amount)
        new_token == ReserveAfterInput(p.token_reserve, token_amount)
    IN
    IF new_sol = None
    THEN Ret("Panic", p, fee_amount, sol_amount, token_amount, 0)
    ELSE IF new_token = None
    THEN Ret("Panic", [p EXCEPT !.sol_reserve = new_sol], fee_amount,
             sol_amount, token_amount, 0)
    ELSE Ret("Ok",
             [p EXCEPT !.sol_reserve = new_sol, !.token_reserve = new_token],
             fee_amount, sol_amount, token_amount, 0)

\* The initial shares: (sol as f64 * token as f64).sqrt() as u64.
InitialLp(initial_sol_amount, initial_token_amount) ==
    F64SqrtAsU64(F64Mul(initial_sol_amount, initial_token_amount))

\* initialize_pool: the in-memory pool is filled in before the transfers are
\* requested, and lp_supply is written before the mint request.
initialize_pool(p, initial_sol_amount, initial_token_amount, fail_at) ==
    IF ~IsPositive(initial_sol_amount)
    THEN Ret("InvalidAmount", p, 0, initial_sol_amount,
             initial_token_amount, 0)
    ELSE IF ~IsPositive(initial_token_amount)
    THEN Ret("InvalidAmount", p, 0, initial_sol_amount,
             initial_token_amount, 0)
    ELSE
    LET p1 == [token_mint |-> "token_mint", lp_mint |-> "lp_mint",
               sol_vault |-> "sol_vault", token_vault |-> "token_vault",
               sol_reserve |-> initial_sol_amount,
               token_reserve |-> initial_token_amount,
               lp_supply |-> 0, bump |-> 1, is_initialized |-> TRUE]
    IN
    IF fail_at \in {1, 2}
    THEN Ret("TransferFailed", p1, 0, initial_sol_amount,
             initial_token_amount, 0)
    ELSE
    LET lp_amount == InitialLp(initial_sol_amount, initial_token_amount)
        p2 == [p1 EXCEPT !.lp_supply = lp_amount]
    IN
    IF fail_at = 3
    THEN Ret("TransferFailed", p2, 0, initial_sol_amount,
             initial_token_amount, lp_amount)
    ELSE Ret("Ok", p2, 0, initial_sol_amount, initial_token_amount,
             lp_amount)

\* The shares of add_liquidity: std::cmp::min(lp_from_sol, lp_from_token).
\* (variant: the larger of the two)
MintedSharesMax(lp_from_sol, lp_from_token) ==
    IF lp_from_sol >= lp_from_token THEN lp_from_sol ELSE lp_from_token
\* the code's choice
MintedShares(lp_from_sol, lp_from_token) ==
    IF lp_from_sol <= lp_from_token THEN lp_from_sol ELSE lp_from_token

add_liquidity(p, sol_amount, max_token_amount, min_lp_amount, fail_at) ==
    IF ~IsPositive(sol_amount)
    THEN Ret("InvalidAmount", p, 0, sol_amount, 0, 0)
    ELSE IF ~p.is_initialized
    THEN Ret("PoolNotInitialized", p, 0, sol_amount, 0, 0)
    ELSE
    LET q_token == MulDiv(sol_amount, p.token_reserve, p.sol_reserve) IN
    IF q_token = None THEN Ret("Panic", p, 0, sol_amount, 0, 0)
    ELSE
    LET token_amount == AsU64(q_token) IN
    IF ~(token_amount <= max_token_amount)
    THEN Ret("SlippageExceeded", p, 0, sol_amount, token_amount, 0)
    ELSE
    LET q_sol == MulDiv(sol_amount, p.lp_supply, p.sol_reserve)
        q_tok == MulDiv(token_amount, p.lp_supply, p.token_reserve)
    IN
    IF q_sol = None \/ q_tok = None
    THEN Ret("Panic", p, 0, sol_amount, token_amount, 0)
    ELSE
    LET lp_from_sol == AsU64(q_sol)
        lp_from_token == AsU64(q_tok)
        lp_amount == MintedShares(lp_from_sol, lp_from_token)
    IN
    IF ~(lp_amount >= min_lp_amount)
    THEN Ret("SlippageExceeded", p, 0, sol_amount, token_amount, lp_amount)
    ELSE IF fail_at \in {1, 2, 3}
    THEN Ret("TransferFailed", p, 0, sol_amount, token_amount, lp_amount)
    ELSE
    LET new_sol == checked_add(p.sol_reserve, sol_amount)
        new_token == checked_add(p.token_reserve, token_amount)
        new_lp == checked_add(p.lp_supply, lp_amount)
    IN
    IF new_sol = None
    THEN Ret("Panic", p, 0, sol_amount, token_amount, lp_amount)
    ELSE IF new_token = None
    THEN Ret("Panic", [p EXCEPT !.sol_reserve = new_sol], 0, sol_amount,
             token_amount, lp_amount)
    ELSE IF new_lp = None
    THEN Ret("Panic",
             [p EXCEPT !.sol_reserve = new_sol, !.token_reserve = new_token],
             0, sol_amount, token_amount, lp_amount)
    ELSE Ret("Ok",
             [p EXCEPT !.sol_reserve = new_sol, !.token_reserve = new_token,
                       !.lp_supply = new_lp],
             0, sol_amount, token_amount, lp_amount)

\* The pool as remove_liquidity leaves it: the two reserves and the supply
\* are assigned, nothing else.
\* (variant: the pool reset when its last share is burned)
AfterRemoveResetting(p, new_sol, new_token, new_lp) ==
    [p EXCEPT !.sol_reserve = new_sol, !.token_reserve = new_token,
              !.lp_supply = new_lp, !.is_initialized = new_lp > 0]
\* the code's updates
AfterRemove(p, new_sol, new_token, new_lp) ==
    [p EXCEPT !.sol_reserve = new_sol, !.token_reserve = new_token,
              !.lp_supply = new_lp]

remove_liquidity(p, lp_amount, min_sol_amount, min_token_amount, fail_at) ==
    IF ~IsPositive(lp_amount) THEN Ret("InvalidAmount", p, 0, 0, 0, lp_amount)
    ELSE IF ~p.is_initialized
    THEN Ret("PoolNotInitialized", p, 0, 0, 0, lp_amount)
    ELSE
    LET q_sol == MulDiv(lp_amount, p.sol_reserve, p.lp_supply)
        q_tok == MulDiv(lp_amount, p.token_reserve, p.lp_supply)
    IN
    IF q_sol = None \/ q_tok = None
    THEN Ret("Panic", p, 0, 0, 0, lp_amount)
    ELSE
    LET sol_amount == AsU64(q_sol)
        token_amount == AsU64(q_tok)
    IN
    IF ~(sol_amount >= min_sol_amount)
    THEN Ret("SlippageExceeded", p, 0, sol_amount, token_amount, lp_amount)
    ELSE IF ~(token_amount >= min_token_amount)
    THEN Ret("SlippageExceeded", p, 0, sol_amount, token_amount, lp_amount)
    ELSE IF fail_at \in {1, 2, 3}
    THEN Ret("TransferFailed", p, 0, sol_amount, token_amount, lp_amount)
    ELSE
    LET new_sol == checked_sub(p.sol_reserve, sol_amount)
        new_token == checked_sub(p.token_reserve, token_amount)
        new_lp == checked_sub(p.lp_supply, lp_amount)
    IN
    IF new_sol = None
    THEN Ret("Panic", p, 0, sol_amount, token_amount, lp_amount)
    ELSE IF new_token = None
    THEN Ret("Panic", [p EXCEPT !.sol_reserve = new_sol], 0, sol_amount,
             token_amount, lp_amount)
    ELSE IF new_lp = None
    THEN Ret("Panic",
             [p EXCEPT !.sol_reserve = new_sol, !.token_reserve = new_token],
             0, sol_amount, token_amount, lp_amount)
    ELSE Ret("Ok", AfterRemove(p, new_sol, new_token, new_lp),
             0, sol_amount, token_amount, lp_amount)

\* ------------------------------------------- the handlers of src/lib.rs
\* fee_amount of swap_sol_to_tokens and swap_tokens_to_sol.
\* (variant: the fee rounded up)
lib_fee_amount_ceil(amount) ==
    AsU64(MulDivCeil(amount, LIB_FEE_NUMERATOR, LIB_FEE_DENOMINATOR))
\* the code's fee
lib_fee_amount(amount) ==
    AsU64(MulDiv(amount, LIB_FEE_NUMERATOR, LIB_FEE_DENOMINATOR))

\* initialize_amm_pool: the in-memory pool is filled in, the tokens move from
\* the minting vault, the SOL from the initializer, then lp_supply is
\* written and the shares are minted.
initialize_amm_pool(p, initial_sol_amount, initial_token_amount, fail_at) ==
    IF ~(initial_sol_amount > 0)
    THEN Ret("InvalidAmount", p, 0, initial_sol_amount,
             initial_token_amount, 0)
    ELSE IF ~(initial_token_amount > 0)
    THEN Ret("InvalidAmount", p, 0, initial_sol_amount,
             initial_token_amount, 0)
    ELSE
    LET p1 == [token_mint |-> "token_mint", lp_mint |-> "lp_mint",
               sol_vault |-> "sol_vault", token_vault |-> "token_vault",
               sol_reserve |-> initial_sol_amount,
               token_reserve |-> initial_token_amount,
               lp_supply |-> 0, bump |-> 1, is_initialized |-> TRUE]
    IN
    IF fail_at \in {1, 2}
    THEN Ret("TransferFailed", p1, 0, initial_sol_amount,
             initial_token_amount, 0)
    ELSE
    LET lp_amount ==
            F64SqrtAsU64(F64Mul(initial_sol_amount, initial_token_amount))
        p2 == [p1 EXCEPT !.lp_supply = lp_amount]
    IN
    IF fail_at = 3
    THEN Ret("TransferFailed", p2, 0, initial_sol_amount,
             initial_token_amount, lp_amount)
    ELSE Ret("Ok", p2, 0, initial_sol_amount, initial_token_amount,
             lp_amount)

add_liquidity_to_pool(p, sol_amount, max_token_amount, min_lp_amount, fail_at) ==
    IF ~(sol_amount > 0) THEN Ret("InvalidAmount", p, 0, sol_amount, 0, 0)
    ELSE IF ~p.is_initialized
    THEN Ret("PoolNotInitialized", p, 0, sol_amount, 0, 0)
    ELSE
    LET q_token == MulDiv(sol_amount, p.token_reserve, p.sol_reserve) IN
    IF q_token = None THEN Ret("Panic", p, 0, sol_amount, 0, 0)
    ELSE
    LET token_amount == AsU64(q_token) IN
    IF ~(token_amount <= max_token_amount)
    THEN Ret("SlippageExceeded", p, 0, sol_amount, token_amount, 0)
    ELSE
    LET q_sol == MulDiv(sol_amount, p.lp_supply, p.sol_reserve)
        q_tok == MulDiv(token_amount, p.lp_supply, p.token_reserve)
    IN
    IF q_sol = None \/ q_tok = None
    THEN Ret("Panic", p, 0, sol_amount, token_amount, 0)
    ELSE
    LET lp_from_sol == AsU64(q_sol)
        lp_from_token == AsU64(q_tok)
        lp_amount == IF lp_from_sol <= lp_from_token THEN lp_from_sol
                     ELSE lp_from_token
    IN
    IF ~(lp_amount >= min_lp_amount)
    THEN Ret("SlippageExceeded", p, 0, sol_amount, token_amount, lp_amount)
    ELSE IF fail_at \in {1, 2, 3}
    THEN Ret("TransferFailed", p, 0, sol_amount, token_amount, lp_amount)
    ELSE
    LET new_sol == checked_add(p.sol_reserve, sol_amount)
        new_token == checked_add(p.token_reserve, token_amount)
        new_lp == checked_add(p.lp_supply, lp_amount)
    IN
    IF new_sol = None
    THEN Ret("Panic", p, 0, sol_amount, token_amount, lp_amount)
    ELSE IF new_token = None
    THEN Ret("Panic", [p EXCEPT !.sol_reserve = new_sol], 0, sol_amount,
             token_amount, lp_amount)
    ELSE IF new_lp = None
    THEN Ret("Panic",
             [p EXCEPT !.sol_reserve = new_sol, !.token_reserve = new_token],
             0, sol_amount, token_amount, lp_amount)
    ELSE Ret("Ok",
             [p EXCEPT !.sol_reserve = new_sol, !.token_reserve = new_token,
                       !.lp_supply = new_lp],
             0, sol_amount, token_amount, lp_amount)

remove_liquidity_from_pool(p, lp_amount, min_sol_amount, min_token_amount, fail_at) ==
    IF ~(lp_amount > 0) THEN Ret("InvalidAmount", p, 0, 0, 0, lp_amount)
    ELSE IF ~p.is_initialized
    THEN Ret("PoolNotInitialized", p, 0, 0, 0, lp_amount)
    ELSE
    LET q_sol == MulDiv(lp_amount, p.sol_reserve, p.lp_supply)
        q_tok == MulDiv(lp_amount, p.token_reserve, p.lp_supply)
    IN
    IF q_sol = None \/ q_tok = None
    THEN Ret("Panic", p, 0, 0, 0, lp_amount)
    ELSE
    LET sol_amount == AsU64(q_sol)
        token_amount == AsU64(q_tok)
    IN
    IF ~(sol_amount >= min_sol_amount)
    THEN Ret("SlippageExceeded", p, 0, sol_amount, token_amount, lp_amount)
    ELSE IF ~(token_amount >= min_token_amount)
    THEN Ret("SlippageExceeded", p, 0, sol_amount, token_amount, lp_amount)
    ELSE IF fail_at \in {1, 2, 3}
    THEN Ret("TransferFailed", p, 0, sol_amount, token_amount, lp_amount)
    ELSE
    LET new_sol == checked_sub(p.sol_reserve, sol_amount)
        new_token == checked_sub(p.token_reserve, token_amount)
        new_lp == checked_sub(p.lp_supply, lp_amount)
    IN
    IF new_sol = None
    THEN Ret("Panic", p, 0, sol_amount, token_amount, lp_amount)
    ELSE IF new_token = None
    THEN Ret("Panic", [p EXCEPT !.sol_reserve = new_sol], 0, sol_amount,
             token_amount, lp_amount)
    ELSE IF new_lp = None
    THEN Ret("Panic",
             [p EXCEPT !.sol_reserve = new_sol, !.token_reserve = new_token],
             0, sol_amount, token_amount, lp_amount)
    ELSE Ret("Ok",
             [p EXCEPT !.sol_reserve = new_sol, !.token_reserve = new_token,
                       !.lp_supply = new_lp],
             0, sol_amount, token_amount, lp_amount)

swap_sol_to_tokens(p, sol_amount, min_token_amount, fail_at) ==
    IF ~(sol_amount > 0) THEN Ret("InvalidAmount", p, 0, sol_amount, 0, 0)
    ELSE IF ~p.is_initialized
    THEN Ret("PoolNotInitialized", p, 0, sol_amount, 0, 0)
    ELSE
    LET fee_amount == lib_fee_amount(sol_amount)
        sol_amount_after_fee == checked_sub(sol_amount, fee_amount)
    IN
    IF sol_amount_after_fee = None
    THEN Ret("Panic", p, fee_amount, sol_amount, 0, 0)
    ELSE
    LET quotient == MulDiv(sol_amount_after_fee, p.token_reserve,
                           p.sol_reserve + sol_amount_after_fee)
    IN
    IF quotient = None THEN Ret("Panic", p, fee_amount, sol_amount, 0, 0)
    ELSE
    LET token_amount == AsU64(quotient) IN
    IF ~(token_amount >= min_token_amount)
    THEN Ret("SlippageExceeded", p, fee_amount, sol_amount, token_amount, 0)
    ELSE IF ~(token_amount < p.token_reserve)
    THEN Ret("InsufficientLiquidity", p, fee_amount, sol_amount,
             token_amount, 0)
    ELSE IF fail_at \in {1, 2}
    THEN Ret("TransferFailed", p, fee_amount, sol_amount, token_amount, 0)
    ELSE
    LET new_sol == checked_add(p.sol_reserve, sol_amount)
        new_token == checked_sub(p.token_reserve, token_amount)
    IN
    IF new_sol = None
    THEN Ret("Panic", p, fee_amount, sol_amount, token_amount, 0)
    ELSE IF new_token = None
    THEN Ret("Panic", [p EXCEPT !.sol_reserve = new_sol], fee_amount,
             sol_amount, token_amount, 0)
    ELSE Ret("Ok",
             [p EXCEPT !.sol_reserve = new_sol, !.token_reserve = new_token],
             fee_amount, sol_amount, token_amount, 0)

swap_tokens_to_sol(p, token_amount, min_sol_amount, fail_at) ==
    IF ~(token_amount > 0) THEN Ret("InvalidAmount", p, 0, 0, token_amount, 0)
    ELSE IF ~p.is_initialized
    THEN Ret("PoolNotInitialized", p, 0, 0, token_amount, 0)
    ELSE
    LET fee_amount == lib_fee_amount(token_amount)
        token_amount_after_fee == checked_sub(token_amount, fee_amount)
    IN
    IF token_amount_after_fee = None
    THEN Ret("Panic", p, fee_amount, 0, token_amount, 0)
    ELSE
    LET quotient == MulDiv(token_amount_after_fee, p.sol_reserve,
                           p.token_reserve + token_amount_after_fee)
    IN
    IF quotient = None THEN Ret("Panic", p, fee_amount, 0, token_amount, 0)
    ELSE
    LET sol_amount == AsU64(quotient) IN
    IF ~(sol_amount >= min_sol_amount)
    THEN Ret("SlippageExceeded", p, fee_amount, sol_amount, token_amount, 0)
    ELSE IF ~(sol_amount < p.sol_reserve)
    THEN Ret("InsufficientLiquidity", p, fee_amount, sol_amount,
             token_amount, 0)
    ELSE IF fail_at \in {1, 2}
    THEN Ret("TransferFailed", p, fee_amount, sol_amount, token_amount, 0)
    ELSE
    LET new_sol == checked_sub(p.sol_reserve, sol_amount)
        new_token == checked_add(p.token_reserve, token_amount)
    IN
    IF new_sol = None
    THEN Ret("Panic", p, fee_amount, sol_amount, token_amount, 0)
    ELSE IF new_token = None
    THEN Ret("Panic", [p EXCEPT !.sol_reserve = new_sol], fee_amount,
             sol_amount, token_amount, 0)
    ELSE Ret("Ok",
             [p EXCEPT !.sol_reserve = new_sol, !.token_reserve = new_token],
             fee_amount, sol_amount, token_amount, 0)

\* ------------------------------------------------------------ dispatching
\* The handler of the deployed program for each instruction, and the other
\* source file.
OtherProgram(prog) == IF prog = "lib" THEN "amm" ELSE "lib"
RunInitialize(prog, p, initial_sol_amount, initial_token_amount, fail_at) ==
    IF prog = "lib"
    THEN initialize_amm_pool(p, initial_sol_amount, initial_token_amount,
                             fail_at)
    ELSE initialize_pool(p, initial_sol_amount, initial_token_amount,
                         fail_at)
RunAdd(prog, p, sol_amount, max_token_amount, min_lp_amount, fail_at) ==
    IF prog = "lib"
    THEN add_liquidity_to_pool(p, sol_amount, max_token_amount,
                               min_lp_amount, fail_at)
    ELSE add_liquidity(p, sol_amount, max_token_amount, min_lp_amount,
                       fail_at)
RunRemove(prog, p, lp_amount, min_sol_amount, min_token_amount, fail_at) ==
    IF prog = "lib"
    THEN remove_liquidity_from_pool(p, lp_amount, min_sol_amount,
                                    min_token_amount, fail_at)
    ELSE remove_liquidity(p, lp_amount, min_sol_amount, min_token_amount,
                          fail_at)
RunSwapSol(prog, p, sol_amount, min_token_amount, fail_at) ==
    IF prog = "lib"
    THEN swap_sol_to_tokens(p, sol_amount, min_token_amount, fail_at)
    ELSE swap_sol_for_tokens(p, sol_amount, min_token_amount, fail_at)
RunSwapTokens(prog, p, token_amount, min_sol_amount, fail_at) ==
    IF prog = "lib"
    THEN swap_tokens_to_sol(p, token_amount, min_sol_amount, fail_at)
    ELSE swap_tokens_for_sol(p, token_amount, min_sol_amount, fail_at)

\* ------------------------------------------------------------ instructions
\* Anchor writes the in-memory account back only after the handler returned
\* Ok; an Err or a panic fails the transaction and nothing is stored.
\* (variant: the in-memory pool stored whatever the handler returned)
PersistAlways(p, r) == r.mem
\* the stored pool after an instruction
Persist(p, r) == IF r.result = "Ok" THEN r.mem ELSE p

\* Account validation, before the handler runs.  `init` creates the pool
\* account and fails when it exists; every other instruction loads the pool
\* as Account<AmmPool> and fails when it was never created.
\* (variant: an existing pool account accepted by initialize)
ValidateInitIgnored(p) == "Ok"
\* the `init` constraint
ValidateInit(p) == IF p.is_initialized THEN "AccountAlreadyInUse" ELSE "Ok"
\* (variant: a pool account that was never created accepted)
ValidateLoadIgnored(p) == "Ok"
\* the Account<AmmPool> load
ValidateLoad(p) == IF p.is_initialized THEN "Ok" ELSE "AccountNotInitialized"

\* An instruction that account validation rejected: the handler did not run,
\* the arguments are those of the call.
Rejected(result, p, sol_amount, token_amount, lp_amount) ==
    Ret(result, p, 0, sol_amount, token_amount, lp_amount)

\* What a successful add_liquidity moved: nothing, when the instruction was
\* not one.
NoAdd == [sol_amount |-> 0, token_amount |-> 0, lp_amount |-> 0]

\* The record of the instruction that ran last: its name (the name it has in
\* src/amm.rs, whichever program runs) and arguments, the
\* pool and the share balances before it, what the handler returned (its
\* in-memory pool included), and
\* what the instruction before it added if it was a successful
\* add_liquidity.
LastOf(op, user, mint, r, min_sol, min_token, max_token, min_lp, added) ==
    [op |-> op, user |-> user, lp_mint |-> mint, result |-> r.result,
     pre |-> pool, pre_balance |-> lp_balance, just_added |-> added,
     mem |-> r.mem, fee_amount |-> r.fee_amount, sol_amount |-> r.sol_amount,
     token_amount |-> r.token_amount, lp_amount |-> r.lp_amount,
     min_sol_amount |-> min_sol, min_token_amount |-> min_token,
     max_token_amount |-> max_token, min_lp_amount |-> min_lp]

\* Units of the pool's own liquidity-share mint in circulation.
RECURSIVE SumBalances(_, _)
SumBalances(bal, us) ==
    IF us = {} THEN 0
    ELSE LET u == CHOOSE x \in us : TRUE
         IN bal[u] + SumBalances(bal, us \ {u})

\* A mint request the token program cannot serve fails: the mint's supply
\* is a u64.
MintFails(mint, amount) ==
    mint = "lp_mint" /\ SumBalances(lp_balance, Users) + amount > U64_MAX
\* A burn request fails when the account holds less than the amount; of a
\* mint the caller controls, the caller holds whatever it minted itself.
BurnFails(mint, user, amount) ==
    mint = "lp_mint" /\ lp_balance[user] < amount

\* No instruction in flight.
Idle == [op |-> "none"]
\* Vaults that hold nothing.
NoVaults == [token |-> 0, sol |-> 0, credited |-> "none"]
\* The ProtocolState account before it is created, and no instruction on
\* it yet.
NoProtocolState ==
    [authority |-> "none", fee_lamports |-> 0, bump |-> 0, exists |-> FALSE]
NoProtocol ==
    [state |-> NoProtocolState,
     last |-> [op |-> "none", signer |-> "none", fee_lamports |-> 0,
               result |-> "none", pre |-> NoProtocolState]]

\* The state before any instruction, with prog deployed.
InitOf(prog) ==
    /\ wide = FALSE
    /\ inflight = [u \in Users |-> Idle]
    /\ serial = NoPool
    /\ vaults = NoVaults
    /\ protocol = NoProtocol
    /\ pool = NoPool
    /\ lp_balance = [u \in Users |-> 0]
    /\ last = LastOf("none", "none", "none", Rejected("none", NoPool, 0, 0, 0),
                     0, 0, 0, 0, NoAdd)
    /\ initialized_count = 0
    /\ program = prog
    /\ steps = 0

Init == InitOf("amm")

\* What the instruction recorded in `last` added to the pool.
JustAdded ==
    IF last.op = "add_liquidity" /\ last.result = "Ok"
    THEN [sol_amount |-> last.sol_amount,
          token_amount |-> last.token_amount, lp_amount |-> last.lp_amount]
    ELSE NoAdd

\* The share amounts passed to remove_liquidity: those of Amounts, and the
\* shares the instruction just before minted.
RemoveAmounts == Amounts \cup {JustAdded.lp_amount}

\* Every instruction: the handler's result r is stored, the liquidity-share
\* balance of the user moves by lp_delta when the instruction succeeded.
CommitPool(op, user, mint, r, lp_delta, min_sol, min_token, max_token, min_lp) ==
    /\ steps < MaxSteps
    /\ pool' = Persist(pool, r)
    /\ lp_balance' = IF r.result = "Ok" /\ mint = "lp_mint"
                     THEN [lp_balance EXCEPT ![user] = @ + lp_delta]
                     ELSE lp_balance
    /\ last' = LastOf(op, user, mint, r, min_sol, min_token, max_token,
                      min_lp, JustAdded)
    /\ initialized_count' = IF op = "initialize_pool" /\ r.result = "Ok"
                            THEN initialized_count + 1
                            ELSE initialized_count
    /\ program' = program
    /\ wide' = wide
    /\ UNCHANGED <<inflight, serial, protocol>>
    /\ steps' = steps + 1

\* The same with the vaults left out of the account.
Commit(op, user, mint, r, lp_delta, min_sol, min_token, max_token, min_lp) ==
    /\ CommitPool(op, user, mint, r, lp_delta, min_sol, min_token,
                  max_token, min_lp)
    /\ UNCHANGED vaults

InitializePool ==
    \/ /\ ValidateInit(pool) = "Ok"
       /\ \E user \in Users, seed \in SeedPairs, fail_at \in 0..3 :
            LET dry == RunInitialize(program, pool, seed[1], seed[2], 0)
                fa == IF fail_at = 0 /\ MintFails("lp_mint", dry.lp_amount)
                      THEN 3 ELSE fail_at
                r == RunInitialize(program, pool, seed[1], seed[2], fa)
            IN Commit("initialize_pool", user, "lp_mint", r, r.lp_amount,
                      0, 0, 0, 0)
    \/ /\ ValidateInit(pool) # "Ok"
       /\ \E user \in Users, seed \in SeedPairs :
            Commit("initialize_pool", user, "lp_mint",
                   Rejected(ValidateInit(pool), pool, seed[1], seed[2], 0),
                   0, 0, 0, 0, 0)

AddLiquidity ==
    \/ /\ ValidateLoad(pool) = "Ok"
       /\ \E user \in Users, mint \in LpMints, sol_amount \in Amounts,
             max_token_amount \in MaxBounds, min_lp_amount \in MinBounds,
             fail_at \in FailPoints :
            LET dry == RunAdd(program, pool, sol_amount, max_token_amount,
                              min_lp_amount, 0)
                fa == IF fail_at = 0 /\ MintFails(mint, dry.lp_amount)
                      THEN 3 ELSE fail_at
                r == RunAdd(program, pool, sol_amount, max_token_amount,
                              min_lp_amount, fa)
            IN Commit("add_liquidity", user, mint, r, r.lp_amount, 0, 0,
                      max_token_amount, min_lp_amount)
    \/ /\ ValidateLoad(pool) # "Ok"
       /\ \E user \in Users, sol_amount \in Amounts :
            Commit("add_liquidity", user, "lp_mint",
                   Rejected(ValidateLoad(pool), pool, sol_amount, 0, 0),
                   0, 0, 0, 0, 0)

RemoveLiquidity ==
    \/ /\ ValidateLoad(pool) = "Ok"
       /\ \E user \in Users, mint \in LpMints, lp_amount \in RemoveAmounts,
             min_sol_amount \in MinBounds, min_token_amount \in MinBounds,
             fail_at \in FailPoints :
            LET fa == IF fail_at = 0 /\ BurnFails(mint, user, lp_amount)
                      THEN 1 ELSE fail_at
                r == RunRemove(program, pool, lp_amount, min_sol_amount,
                                 min_token_amount, fa)
            IN Commit("remove_liquidity", user, mint, r, 0 - r.lp_amount,
                      min_sol_amount, min_token_amount, 0, 0)
    \/ /\ ValidateLoad(pool) # "Ok"
       /\ \E user \in Users, lp_amount \in Amounts :
            Commit("remove_liquidity", user, "lp_mint",
                   Rejected(ValidateLoad(pool), pool, 0, 0, lp_amount),
                   0, 0, 0, 0, 0)

SwapSolForTokens ==
    \/ /\ ValidateLoad(pool) = "Ok"
       /\ \E user \in Users, sol_amount \in Amounts,
             min_token_amount \in MinBounds, fail_at \in FailPoints :
            LET r == RunSwapSol(program, pool, sol_amount,
                                  min_token_amount, fail_at)
            IN Commit("swap_sol_for_tokens", user, "none", r, 0, 0,
                      min_token_amount, 0, 0)
    \/ /\ ValidateLoad(pool) # "Ok"
       /\ \E user \in Users, sol_amount \in Amounts :
            Commit("swap_sol_for_tokens", user, "none",
                   Rejected(ValidateLoad(pool), pool, sol_amount, 0, 0),
                   0, 0, 0, 0, 0)

SwapTokensForSol ==
    \/ /\ ValidateLoad(pool) = "Ok"
       /\ \E user \in Users, token_amount \in Amounts,
             min_sol_amount \in MinBounds, fail_at \in FailPoints :
            LET r == RunSwapTokens(program, pool, token_amount,
                                     min_sol_amount, fail_at)
            IN Commit("swap_tokens_for_sol", user, "none", r, 0,
                      min_sol_amount, 0, 0, 0)
    \/ /\ ValidateLoad(pool) # "Ok"
       /\ \E user \in Users, token_amount \in Amounts :
            Commit("swap_tokens_for_sol", user, "none",
                   Rejected(ValidateLoad(pool), pool, 0, token_amount, 0),
                   0, 0, 0, 0, 0)

Next ==
    \/ InitializePool
    \/ AddLiquidity
    \/ RemoveLiquidity
    \/ SwapSolForTokens
    \/ SwapTokensForSol

Spec == Init /\ [][Next]_vars

\* The same instructions as the meme_launchpad program of src/lib.rs
\* declares them.
LibInit == InitOf("lib")

LibSpec == LibInit /\ [][Next]_vars

\* ------------------------------------------------- the worked scenario
\* The pool of the specification's scenario: initialize_pool(1,000,000,
\* 1,000,000,000) has run, and floor(sqrt(10^15)) = 31,622,776 shares belong
\* to the initializer.
ScenarioPool ==
    [token_mint |-> "token_mint", lp_mint |-> "lp_mint",
     sol_vault |-> "sol_vault", token_vault |-> "token_vault",
     sol_reserve |-> 1000000, token_reserve |-> 1000000000,
     lp_supply |-> 31622776, bump |-> 1, is_initialized |-> TRUE]
\* Swap inputs of the scenario run: zero, an amount whose fee rounds to
\* zero, the scenario's 1000 and its double.
ScenarioAmounts == {0, 1, 1000, 2000}

ScenarioInit ==
    /\ wide = TRUE
    /\ inflight = [u \in Users |-> Idle]
    /\ serial = NoPool
    /\ vaults = NoVaults
    /\ protocol = NoProtocol
    /\ pool = ScenarioPool
    /\ lp_balance = [u \in Users |->
                        IF u = "u1" THEN ScenarioPool.lp_supply ELSE 0]
    /\ last = LastOf("none", "none", "none",
                     Rejected("none", ScenarioPool, 0, 0, 0), 0, 0, 0, 0,
                     NoAdd)
    /\ initialized_count = 1
    /\ program \in Programs
    /\ steps = 0

ScenarioSwapSol ==
    /\ ValidateLoad(pool) = "Ok"
    /\ \E user \in Users, sol_amount \in ScenarioAmounts,
          min_token_amount \in MinBounds, fail_at \in FailPoints :
         LET r == RunSwapSol(program, pool, sol_amount, min_token_amount,
                               fail_at)
         IN Commit("swap_sol_for_tokens", user, "none", r, 0, 0,
                   min_token_amount, 0, 0)

ScenarioSwapTokens ==
    /\ ValidateLoad(pool) = "Ok"
    /\ \E user \in Users, token_amount \in ScenarioAmounts,
          min_sol_amount \in MinBounds, fail_at \in FailPoints :
         LET r == RunSwapTokens(program, pool, token_amount,
                                  min_sol_amount, fail_at)
         IN Commit("swap_tokens_for_sol", user, "none", r, 0,
                   min_sol_amount, 0, 0, 0)

ScenarioNext ==
    \/ ScenarioSwapSol
    \/ ScenarioSwapTokens

ScenarioSpec == ScenarioInit /\ [][ScenarioNext]_vars

\* ------------------------------------------ instructions taken in steps
\* An instruction as the runtime executes it: the pool account is loaded
\* into the handler's copy, the handler computes on that copy and makes its
\* requests to the system and token programs, and the copy is written back
\* when the handler returns.  Several callers submit instructions on the
\* same pool.
InterleavedOps ==
    {"swap_sol_for_tokens", "swap_tokens_for_sol", "add_liquidity"}
InterleavedAmounts == {1, 1000}

\* The handler of instruction op run whole on pool p; lim is the caller's
\* slippage bound (min output of a swap, max_token_amount of an add, whose
\* min_lp_amount is 0).
RunOp(prog, op, p, amount, lim, fail_at) ==
    IF op = "swap_sol_for_tokens"
    THEN RunSwapSol(prog, p, amount, lim, fail_at)
    ELSE IF op = "swap_tokens_for_sol"
    THEN RunSwapTokens(prog, p, amount, lim, fail_at)
    ELSE RunAdd(prog, p, amount, lim, 0, fail_at)

\* The pool account is declared `mut`: the runtime gives the instruction
\* that loads it exclusive access until it returns.
\* (variant: the account handed to every instruction at once)
PoolAccountShared == TRUE
\* the runtime's write lock
PoolAccountFree == \A u \in Users : inflight[u].op = "none"

InterleavedInit ==
    /\ wide = FALSE
    /\ program \in Programs
    /\ pool = RunInitialize(program, NoPool, 1000, 4000, 0).mem
    /\ serial = pool
    /\ lp_balance = [u \in Users |-> IF u = "u1" THEN pool.lp_supply ELSE 0]
    /\ last = LastOf("none", "none", "none", Rejected("none", pool, 0, 0, 0),
                     0, 0, 0, 0, NoAdd)
    /\ initialized_count = 1
    /\ inflight = [u \in Users |-> Idle]
    /\ vaults = NoVaults
    /\ protocol = NoProtocol
    /\ steps = 0

\* The runtime loads the pool for user's instruction and the handler runs
\* on the loaded copy up to its return.
BeginInstruction ==
    /\ steps < MaxSteps
    /\ PoolAccountFree
    /\ ValidateLoad(pool) = "Ok"
    /\ \E user \in Users, op \in InterleavedOps,
          amount \in InterleavedAmounts, fail_at \in FailPoints :
         LET lim == IF op = "add_liquidity" THEN U64_MAX ELSE 0
             dry == RunOp(program, op, pool, amount, lim, 0)
             fa == IF op = "add_liquidity" /\ fail_at = 0
                      /\ MintFails("lp_mint", dry.lp_amount)
                   THEN 3 ELSE fail_at
         IN /\ inflight[user].op = "none"
            /\ inflight' = [inflight EXCEPT ![user] =
                   [op |-> op, amount |-> amount, lim |-> lim,
                    fail_at |-> fa, loaded |-> pool, nested |-> "none",
                    r |-> RunOp(program, op, pool, amount, lim, fa)]]
    /\ steps' = steps + 1
    /\ UNCHANGED <<pool, lp_balance, last, initialized_count, program, wide,
                   serial, vaults, protocol>>

\* While the handler waits for a transfer, the called program tries to
\* invoke an instruction of the pool's program: the runtime refuses a call
\* back into a program that is on the call stack, and the pool account is
\* written by its owner program only.
NestedCall ==
    /\ \E user \in Users :
         /\ inflight[user].op # "none"
         /\ inflight[user].nested = "none"
         /\ inflight[user].r.result \in {"Ok", "TransferFailed", "Panic"}
         /\ inflight' = [inflight EXCEPT
                            ![user].nested = "ReentrancyNotAllowed"]
    /\ UNCHANGED <<pool, lp_balance, last, initialized_count, program, wide,
                   serial, vaults, protocol, steps>>

\* The handler returns: its copy is written back when it returned Ok.
FinishInstruction ==
    /\ \E user \in Users :
         LET i == inflight[user]
             whole == RunOp(program, i.op, serial, i.amount, i.lim,
                            i.fail_at)
         IN /\ i.op # "none"
            /\ pool' = Persist(pool, i.r)
            /\ serial' = Persist(serial, whole)
            /\ lp_balance' = IF i.r.result = "Ok" /\ i.op = "add_liquidity"
                             THEN [lp_balance EXCEPT
                                     ![user] = @ + i.r.lp_amount]
                             ELSE lp_balance
            /\ last' = LastOf(i.op, user,
                              IF i.op = "add_liquidity" THEN "lp_mint"
                              ELSE "none",
                              i.r, 0, 0, i.lim, 0, JustAdded)
            /\ inflight' = [inflight EXCEPT ![user] = Idle]
    /\ UNCHANGED <<initialized_count, program, wide, vaults, protocol,
                   steps>>

InterleavedNext ==
    \/ BeginInstruction
    \/ NestedCall
    \/ FinishInstruction

InterleavedSpec == InterleavedInit /\ [][InterleavedNext]_vars

\* ------------------------------------------------ what the vaults hold
\* The instructions with the token account the caller passes as
\* token_vault.  AddLiquidity and SwapTokensForSol declare it as a bare
\* #[account(mut)] token account: the caller passes the pool's vault or any
\* other account of the pool's token mint.  sol_vault is fixed by its
\* seeds.  Transfers out of the pool are taken from the pool's own vault.
TokenVaults == {"token_vault", "other_vault"}
VaultAmounts == {1, 1000}

\* The vaults after an instruction that moved sol_in and token_in into the
\* pool (negative: out of it), the tokens paid into account credited.
VaultsAfter(r, sol_in, token_in, credited) ==
    IF r.result # "Ok" THEN [vaults EXCEPT !.credited = "none"]
    ELSE [token |-> IF credited = "other_vault" THEN vaults.token
                    ELSE vaults.token + token_in,
          sol |-> vaults.sol + sol_in,
          credited |-> credited]

VaultInit ==
    /\ wide = FALSE
    /\ program \in Programs
    /\ pool = RunInitialize(program, NoPool, 1000, 4000, 0).mem
    /\ serial = NoPool
    /\ lp_balance = [u \in Users |-> IF u = "u1" THEN pool.lp_supply ELSE 0]
    /\ last = LastOf("none", "none", "none", Rejected("none", pool, 0, 0, 0),
                     0, 0, 0, 0, NoAdd)
    /\ initialized_count = 1
    /\ inflight = [u \in Users |-> Idle]
    /\ protocol = NoProtocol
    /\ vaults = [token |-> pool.token_reserve, sol |-> pool.sol_reserve,
                 credited |-> "token_vault"]
    /\ steps = 0

VaultAdd ==
    /\ ValidateLoad(pool) = "Ok"
    /\ \E user \in Users, sol_amount \in VaultAmounts,
          token_vault \in TokenVaults, fail_at \in FailPoints :
         LET dry == RunAdd(program, pool, sol_amount, U64_MAX, 0, 0)
             fa == IF fail_at = 0 /\ MintFails("lp_mint", dry.lp_amount)
                   THEN 3 ELSE fail_at
             r == RunAdd(program, pool, sol_amount, U64_MAX, 0, fa)
         IN /\ CommitPool("add_liquidity", user, "lp_mint", r, r.lp_amount,
                          0, 0, U64_MAX, 0)
            /\ vaults' = VaultsAfter(r, r.sol_amount, r.token_amount,
                                     token_vault)

VaultRemove ==
    /\ ValidateLoad(pool) = "Ok"
    /\ \E user \in Users, lp_amount \in VaultAmounts,
          fail_at \in FailPoints :
         LET fa == IF fail_at = 0 /\ BurnFails("lp_mint", user, lp_amount)
                   THEN 1 ELSE fail_at
             r == RunRemove(program, pool, lp_amount, 0, 0, fa)
         IN /\ CommitPool("remove_liquidity", user, "lp_mint", r,
                          0 - r.lp_amount, 0, 0, 0, 0)
            /\ vaults' = VaultsAfter(r, 0 - r.sol_amount,
                                     0 - r.token_amount, "none")

VaultSwapSol ==
    /\ ValidateLoad(pool) = "Ok"
    /\ \E user \in Users, sol_amount \in VaultAmounts,
          fail_at \in FailPoints :
         LET r == RunSwapSol(program, pool, sol_amount, 0, fail_at)
         IN /\ CommitPool("swap_sol_for_tokens", user, "none", r, 0, 0, 0,
                          0, 0)
            /\ vaults' = VaultsAfter(r, r.sol_amount, 0 - r.token_amount,
                                     "none")

VaultSwapTokens ==
    /\ ValidateLoad(pool) = "Ok"
    /\ \E user \in Users, token_amount \in VaultAmounts,
          token_vault \in TokenVaults, fail_at \in FailPoints :
         LET r == RunSwapTokens(program, pool, token_amount, 0, fail_at)
         IN /\ CommitPool("swap_tokens_for_sol", user, "none", r, 0, 0, 0,
                          0, 0)
            /\ vaults' = VaultsAfter(r, 0 - r.sol_amount, r.token_amount,
                                     token_vault)

VaultNext ==
    \/ VaultAdd
    \/ VaultRemove
    \/ VaultSwapSol
    \/ VaultSwapTokens

VaultSpec == VaultInit /\ [][VaultNext]_vars

\* ------------------------------------------------- the protocol state
\* The two instructions of src/lib.rs that write the ProtocolState account.
FeeAmounts == {0, 1, 1000}

\* InitializeProtocolState.protocol_state is init_if_needed: the account is
\* created when it does not exist and loaded as it is when it does.
\* (variant: plain init, which refuses an account that exists)
ValidateProtocolInitOnce(state) ==
    IF state.exists THEN "AccountAlreadyInUse" ELSE "Ok"
\* the code's constraint
ValidateProtocolInit(state) == "Ok"

\* ResetProtocolState.protocol_state: the account is loaded, and has_one
\* compares its authority with the signer.
ValidateProtocolReset(state, authority) ==
    IF ~state.exists THEN "AccountNotInitialized"
    ELSE IF state.authority # authority THEN "ConstraintHasOne"
    ELSE "Ok"

initialize_protocol_state(state, authority, fee_lamports) ==
    [state EXCEPT !.authority = authority, !.fee_lamports = fee_lamports,
                  !.bump = 1, !.exists = TRUE]

reset_protocol_state(state) == [state EXCEPT !.fee_lamports = 0]

\* The protocol variable after an instruction that returned result and
\* left the account as after.
ProtocolAfter(op, signer, fee_lamports, result, after) ==
    [state |-> IF result = "Ok" THEN after ELSE protocol.state,
     last |-> [op |-> op, signer |-> signer, fee_lamports |-> fee_lamports,
               result |-> result, pre |-> protocol.state]]

InitializeProtocolState ==
    /\ steps < MaxSteps
    /\ \E authority \in Users, fee_lamports \in FeeAmounts,
          fail_at \in FailPoints :
         LET v == ValidateProtocolInit(protocol.state)
             result == IF v # "Ok" THEN v
                       ELSE IF ~protocol.state.exists /\ fail_at = 1
                       THEN "TransferFailed"
                       ELSE "Ok"
         IN protocol' = ProtocolAfter(
                "initialize_protocol_state", authority, fee_lamports, result,
                initialize_protocol_state(protocol.state, authority,
                                          fee_lamports))
    /\ steps' = steps + 1
    /\ UNCHANGED <<pool, lp_balance, last, initialized_count, program, wide,
                   inflight, serial, vaults>>

ResetProtocolState ==
    /\ steps < MaxSteps
    /\ \E authority \in Users :
         protocol' = ProtocolAfter(
             "reset_protocol_state", authority, 0,
             ValidateProtocolReset(protocol.state, authority),
             reset_protocol_state(protocol.state))
    /\ steps' = steps + 1
    /\ UNCHANGED <<pool, lp_balance, last, initialized_count, program, wide,
                   inflight, serial, vaults>>

ProtocolNext ==
    \/ InitializeProtocolState
    \/ ResetProtocolState

ProtocolSpec == LibInit /\ [][ProtocolNext]_vars

\* ------------------------------------------------------------------ claims
\* What the last instruction was, read off the record it left.
SwapOps == {"swap_sol_for_tokens", "swap_tokens_for_sol"}
LastIsSwap == last.op \in SwapOps
LastSolIn == last.op = "swap_sol_for_tokens"
LastOk == last.result = "Ok"
\* The last swap's input, minimum, reserves before and after, by side.
SwapInput == IF LastSolIn THEN last.sol_amount ELSE last.token_amount
SwapPaid == IF LastSolIn THEN last.token_amount ELSE last.sol_amount
SwapMinimum ==
    IF LastSolIn THEN last.min_token_amount ELSE last.min_sol_amount
InReserveBefore ==
    IF LastSolIn THEN last.pre.sol_reserve ELSE last.pre.token_reserve
OutReserveBefore ==
    IF LastSolIn THEN last.pre.token_reserve ELSE last.pre.sol_reserve
InReserveNow == IF LastSolIn THEN pool.sol_reserve ELSE pool.token_reserve
OutReserveNow == IF LastSolIn THEN pool.token_reserve ELSE pool.sol_reserve
ProductBefore == last.pre.sol_reserve * last.pre.token_reserve
ProductNow == pool.sol_reserve * pool.token_reserve
\* The last swap got as far as pricing: the pool was loaded and the input
\* was not zero.
SwapPriced == LastIsSwap /\ last.pre.is_initialized /\ SwapInput >= 1
\* The fee and the output as the specification writes them, in plain
\* integers.
SpecFee == (SwapInput * 3) \div 1000
SpecOutput ==
    ((SwapInput - SpecFee) * OutReserveBefore)
        \div (InReserveBefore + SwapInput - SpecFee)

\* C1: a successful swap, in either direction, never decreases the product
\* of the reserves.
C1_ProductNeverDecreases ==
    (LastIsSwap /\ LastOk) => ProductNow >= ProductBefore

\* A swap of SOL for tokens succeeded, charged a fee and paid tokens out.
C1_Witness ==
    /\ LastSolIn /\ LastOk
    /\ last.fee_amount >= 1 /\ last.token_amount >= 1

\* C2 (as claimed): once initialized, both reserves are strictly positive in
\* every reachable state.
C2_ReservesStayPositive ==
    pool.is_initialized =>
        (pool.sol_reserve > 0 /\ pool.token_reserve > 0)

\* C3 (as claimed): lp_supply is zero exactly when the pool is not
\* initialized.
C3_SupplyZeroIffUninitialized ==
    (pool.lp_supply = 0) <=> ~pool.is_initialized

C5_ProductAlwaysGrows ==
    (LastIsSwap /\ LastOk /\ SwapInput >= 1) => ProductNow > ProductBefore

\* C5 (amended): a successful swap whose charged fee is at least 1 strictly
\* increases the product of the reserves.
C5_ProductGrowsWhenFeeCharged ==
    (LastIsSwap /\ LastOk /\ last.fee_amount >= 1) =>
        ProductNow > ProductBefore

\* A swap of tokens for SOL succeeded and charged a fee.
C5_Witness ==
    /\ last.op = "swap_tokens_for_sol" /\ LastOk
    /\ last.fee_amount >= 1 /\ ProductNow > ProductBefore

\* C6: every swap that reaches pricing computes fee = floor(x * 3 / 1000) and
\* output = floor((x - fee) * out / (in + x - fee)).
C6_OutputFormula ==
    SwapPriced =>
        /\ last.fee_amount = SpecFee
        /\ SwapPaid = SpecOutput

\* A priced swap with a nonzero fee whose quotient was truncated.
C6_Witness ==
    /\ SwapPriced /\ last.fee_amount >= 1 /\ SwapPaid >= 1
    /\ ((SwapInput - SpecFee) * OutReserveBefore)
           % (InReserveBefore + SwapInput - SpecFee) # 0

\* C7: a successful swap adds the whole input to the input-side reserve,
\* takes the output from the output-side reserve, and changes nothing else.
C7_SwapFrame ==
    (LastIsSwap /\ LastOk) =>
        /\ InReserveNow = InReserveBefore + SwapInput
        /\ OutReserveNow = OutReserveBefore - SwapPaid
        /\ pool.lp_supply = last.pre.lp_supply
        /\ pool.is_initialized = last.pre.is_initialized
        /\ pool.token_mint = last.pre.token_mint
        /\ pool.lp_mint = last.pre.lp_mint
        /\ pool.sol_vault = last.pre.sol_vault
        /\ pool.token_vault = last.pre.token_vault
        /\ pool.bump = last.pre.bump

\* A successful swap that charged a fee: the fee stayed in the reserve.
C7_Witness ==
    /\ LastIsSwap /\ LastOk /\ last.fee_amount >= 1
    /\ InReserveNow = InReserveBefore + SwapInput

\* C8: a priced swap whose output is below the caller's minimum fails with
\* SlippageExceeded and leaves the pool as it was; a successful swap pays at
\* least the minimum.
C8_SlippageBound ==
    /\ (SwapPriced /\ SpecOutput < SwapMinimum) =>
          (last.result = "SlippageExceeded" /\ pool = last.pre)
    /\ (LastIsSwap /\ LastOk) => SwapPaid >= SwapMinimum

\* A swap was refused for slippage although it would have paid out.
C8_Witness ==
    /\ LastIsSwap /\ last.result = "SlippageExceeded"
    /\ SwapPaid >= 1 /\ SwapPaid < SwapMinimum

\* C9 (as claimed): a priced swap whose output equals or exceeds the
\* output-side reserve fails with InsufficientLiquidity and changes nothing,
\* and after a successful swap the output-side reserve is at least 1.
C9_InsufficientLiquidity ==
    /\ (SwapPriced /\ SpecOutput >= OutReserveBefore) =>
          (last.result = "InsufficientLiquidity" /\ pool = last.pre)
    /\ (LastIsSwap /\ LastOk) => OutReserveNow >= 1

\* C10 (as claimed): a successful initialize stores the seeds, marks the pool
\* initialized and mints exactly floor(sqrt(seed_sol * seed_token)) shares.
C10_InitialSharesExact ==
    (last.op = "initialize_pool" /\ LastOk) =>
        /\ pool.sol_reserve = last.sol_amount
        /\ pool.token_reserve = last.token_amount
        /\ pool.is_initialized
        /\ pool.lp_supply = ISqrt(last.sol_amount * last.token_amount)
        /\ lp_balance[last.user] = pool.lp_supply

\* ------------------------------------------------------ claims C11 to C20
\* The primary amount of the last instruction was zero: a seed of initialize,
\* the SOL of add_liquidity, the shares of remove_liquidity, a swap's input.
LastIsInitialize == last.op = "initialize_pool"
LastIsAdd == last.op = "add_liquidity"
LastIsRemove == last.op = "remove_liquidity"
ZeroPrimary ==
    \/ LastIsInitialize /\ (last.sol_amount = 0 \/ last.token_amount = 0)
    \/ LastIsAdd /\ last.sol_amount = 0
    \/ LastIsRemove /\ last.lp_amount = 0
    \/ LastIsSwap /\ SwapInput = 0
\* Account validation let the last instruction through to its handler: the
\* pool did not exist yet for initialize, and existed for every other one.
HandlerRan ==
    IF LastIsInitialize THEN ~last.pre.is_initialized
    ELSE last.op # "none" /\ last.pre.is_initialized

\* C11 (as claimed): every instruction called with a zero primary amount
\* fails with InvalidAmount and leaves the pool as it was.
C11_ZeroAmountIsInvalid ==
    ZeroPrimary => (last.result = "InvalidAmount" /\ pool = last.pre)

\* C11 (amended): an instruction called with a zero primary amount fails and
\* leaves the pool as it was; the failure is InvalidAmount whenever account
\* validation let the instruction reach its handler.
C11_ZeroAmountFails ==
    ZeroPrimary =>
        /\ ~LastOk
        /\ pool = last.pre
        /\ HandlerRan => last.result = "InvalidAmount"

\* remove_liquidity of zero shares was refused on a pool that holds reserves.
C11_Witness ==
    /\ LastIsRemove /\ last.lp_amount = 0
    /\ last.result = "InvalidAmount"
    /\ pool.is_initialized /\ pool.sol_reserve >= 1 /\ pool = last.pre

\* C12: initialize_pool on a pool that is already initialized fails and
\* leaves the pool as it was, and over any run at most one initialize_pool
\* of the pool succeeds.
C12_InitializeOnce ==
    /\ (LastIsInitialize /\ last.pre.is_initialized) =>
          (~LastOk /\ pool = last.pre)
    /\ initialized_count <= 1

\* A second initialize_pool with nonzero seeds was refused after the first
\* had succeeded.
C12_Witness ==
    /\ LastIsInitialize /\ last.pre.is_initialized /\ ~LastOk
    /\ last.sol_amount >= 1 /\ last.token_amount >= 1
    /\ initialized_count = 1

\* The pool before the last instruction, and floor(a * b / c) in plain
\* integers as the specification writes it (0 when c is 0).
PreB == last.pre.sol_reserve
PreQ == last.pre.token_reserve
PreS == last.pre.lp_supply
mul_div_floor(a, b, c) == IF c = 0 THEN 0 ELSE (a * b) \div c
Least(a, b) == IF a <= b THEN a ELSE b
\* The contribution and the shares of the last add_liquidity as specified.
SpecTokenIn == mul_div_floor(last.sol_amount, PreQ, PreB)
SpecMinted ==
    Least(mul_div_floor(last.sol_amount, PreS, PreB),
          mul_div_floor(SpecTokenIn, PreS, PreQ))

\* C13 (as claimed): a successful add_liquidity(sol_amount) on reserves
\* (B, Q) and supply S takes floor(sol_amount * Q / B) tokens, mints
\* min(floor(sol_amount * S / B), floor(token_amount * S / Q)) shares, adds
\* exactly these to the reserves and the supply, and credits the shares to
\* the caller.
C13_AddFormula ==
    (LastIsAdd /\ LastOk) =>
        /\ last.token_amount = SpecTokenIn
        /\ last.lp_amount = SpecMinted
        /\ pool.sol_reserve = PreB + last.sol_amount
        /\ pool.token_reserve = PreQ + SpecTokenIn
        /\ pool.lp_supply = PreS + SpecMinted
        /\ lp_balance[last.user] = last.pre_balance[last.user] + SpecMinted

\* The payouts of the last remove_liquidity as specified.
SpecSolOut == mul_div_floor(last.lp_amount, PreB, PreS)
SpecTokenOut == mul_div_floor(last.lp_amount, PreQ, PreS)
\* The last add_liquidity / remove_liquidity reached its arithmetic: the
\* pool was loaded, the amount was not zero, and the divisor was not zero.
AddComputed ==
    LastIsAdd /\ HandlerRan /\ last.sol_amount >= 1 /\ PreB >= 1 /\ PreQ >= 1
RemoveComputed ==
    LastIsRemove /\ HandlerRan /\ last.lp_amount >= 1 /\ PreS >= 1

\* C14 (as claimed): add_liquidity fails with SlippageExceeded when the
\* required token amount exceeds max_token_amount or the shares to mint are
\* below min_lp_amount, remove_liquidity fails with SlippageExceeded when a
\* payout is below its minimum, such a failure leaves the pool as it was,
\* and every success satisfies the bounds the caller supplied.
C14_LiquidityBounds ==
    /\ (AddComputed /\ (\/ SpecTokenIn > last.max_token_amount
                        \/ SpecMinted < last.min_lp_amount)) =>
          (last.result = "SlippageExceeded" /\ pool = last.pre)
    /\ (RemoveComputed /\ (\/ SpecSolOut < last.min_sol_amount
                           \/ SpecTokenOut < last.min_token_amount)) =>
          (last.result = "SlippageExceeded" /\ pool = last.pre)
    /\ (LastIsAdd /\ LastOk) =>
          /\ last.token_amount <= last.max_token_amount
          /\ last.lp_amount >= last.min_lp_amount
    /\ (LastIsRemove /\ LastOk) =>
          /\ last.sol_amount >= last.min_sol_amount
          /\ last.token_amount >= last.min_token_amount

\* C15: a successful add_liquidity mints no more than the contribution's
\* share on either side (minted * B <= sol_amount * S and minted * Q <=
\* token_amount * S on the pool before it), so neither reserve per share
\* decreases.
C15_AddNeverDilutes ==
    (LastIsAdd /\ LastOk) =>
        /\ last.lp_amount * PreB <= last.sol_amount * PreS
        /\ last.lp_amount * PreQ <= last.token_amount * PreS
        /\ pool.sol_reserve * PreS >= PreB * pool.lp_supply
        /\ pool.token_reserve * PreS >= PreQ * pool.lp_supply

\* A successful add_liquidity minted shares, no quotient was cut to the word
\* width, and the two ways of counting the shares differed: the token side
\* gave fewer than the SOL side.
C15_Witness ==
    /\ LastIsAdd /\ LastOk /\ last.lp_amount >= 1
    /\ last.token_amount = SpecTokenIn
    /\ last.lp_amount < mul_div_floor(last.sol_amount, PreS, PreB)
    /\ pool.lp_supply = PreS + last.lp_amount

\* C16: a successful remove_liquidity(lp_amount) on reserves (B, Q) and
\* supply S pays floor(lp_amount * B / S) SOL and floor(lp_amount * Q / S)
\* tokens, and takes exactly these from the reserves and lp_amount from the
\* supply.
C16_RemoveFormula ==
    (LastIsRemove /\ LastOk) =>
        /\ last.sol_amount = SpecSolOut
        /\ last.token_amount = SpecTokenOut
        /\ pool.sol_reserve = PreB - SpecSolOut
        /\ pool.token_reserve = PreQ - SpecTokenOut
        /\ pool.lp_supply = PreS - last.lp_amount

\* A successful remove_liquidity of part of the supply whose SOL payout was
\* rounded down.
C16_Witness ==
    /\ LastIsRemove /\ LastOk
    /\ last.lp_amount >= 1 /\ last.lp_amount < PreS
    /\ (last.lp_amount * PreB) % PreS # 0
    /\ last.sol_amount >= 1

\* C17: a successful remove_liquidity pays no more than the proportional
\* share on either side (sol_out * S <= lp_amount * B and token_out * S <=
\* lp_amount * Q on the pool before it), so the reserves behind each
\* remaining share do not decrease.
C17_RemoveNeverOverpays ==
    (LastIsRemove /\ LastOk) =>
        /\ last.sol_amount * PreS <= last.lp_amount * PreB
        /\ last.token_amount * PreS <= last.lp_amount * PreQ
        /\ pool.sol_reserve * PreS >= PreB * pool.lp_supply
        /\ pool.token_reserve * PreS >= PreQ * pool.lp_supply

\* A successful remove_liquidity left shares outstanding and paid strictly
\* less than the proportional share of tokens: the dust stayed in the pool.
C17_Witness ==
    /\ LastIsRemove /\ LastOk /\ pool.lp_supply >= 1
    /\ last.token_amount >= 1
    /\ last.token_amount * PreS < last.lp_amount * PreQ
    /\ pool.token_reserve * PreS > PreQ * pool.lp_supply

\* C18: when a successful add_liquidity that minted m >= 1 shares is followed
\* immediately by remove_liquidity(m), the remove pays out no more SOL and no
\* more tokens than the add put in.
C18_AddThenRemove ==
    (/\ LastIsRemove /\ HandlerRan
     /\ last.just_added.lp_amount >= 1
     /\ last.lp_amount = last.just_added.lp_amount) =>
        /\ last.sol_amount <= last.just_added.sol_amount
        /\ last.token_amount <= last.just_added.token_amount

\* The shares just minted were removed again, successfully, and the SOL
\* that came back was less than the SOL put in.
C18_Witness ==
    /\ LastIsRemove /\ LastOk
    /\ last.just_added.lp_amount >= 1
    /\ last.lp_amount = last.just_added.lp_amount
    /\ last.sol_amount >= 1
    /\ last.sol_amount < last.just_added.sol_amount

\* The last instruction passed its checks and its requests, and one of its
\* updates left the word: a reserve or the supply above U64_MAX, or below 0.
ReachedUpdates ==
    last.result \notin
        {"InvalidAmount", "SlippageExceeded", "InsufficientLiquidity",
         "TransferFailed"}
UpdateOverflows ==
    \/ /\ AddComputed /\ ReachedUpdates
       /\ \/ PreB + last.sol_amount > U64_MAX
          \/ PreQ + last.token_amount > U64_MAX
          \/ PreS + last.lp_amount > U64_MAX
    \/ /\ SwapPriced /\ ReachedUpdates
       /\ \/ InReserveBefore + SwapInput > U64_MAX
          \/ OutReserveBefore < SwapPaid
    \/ /\ RemoveComputed /\ ReachedUpdates
       /\ \/ PreB < last.sol_amount
          \/ PreQ < last.token_amount
          \/ PreS < last.lp_amount

\* C19 (as claimed): an instruction whose update would take a reserve or the
\* supply above the largest word or below zero fails with the arithmetic
\* error value MathOverflow, and the pool is left as it was.
C19_OverflowIsReported ==
    UpdateOverflows => (last.result = "MathOverflow" /\ pool = last.pre)

\* One of the three quotients of the last add_liquidity, computed exactly,
\* does not fit the word: the required tokens, the shares counted from the
\* SOL, or the shares counted from the tokens.
QuotientTooWide ==
    /\ AddComputed
    /\ IF SpecTokenIn > U64_MAX THEN TRUE
       ELSE IF mul_div_floor(last.sol_amount, PreS, PreB) > U64_MAX THEN TRUE
       ELSE mul_div_floor(SpecTokenIn, PreS, PreQ) > U64_MAX

\* C20 (as claimed): an add_liquidity one of whose quotients a * b / c does
\* not fit the word fails and commits nothing; it never commits the quotient
\* cut to the word width.
C20_NoTruncatedCommit ==
    QuotientTooWide => (~LastOk /\ pool = last.pre)

\* ------------------------------------------------------ claims C21 to C30
\* The last instruction was add_liquidity, remove_liquidity or a swap, with
\* a nonzero primary amount, on a pool that had never been initialized.
LiquidityOps == {"add_liquidity", "remove_liquidity"}
CallBeforeInitialize ==
    /\ last.op \in LiquidityOps \cup SwapOps
    /\ ~ZeroPrimary
    /\ ~last.pre.is_initialized
\* Nothing has moved: the pool has no data and nobody holds a share.
NothingMoved == pool = NoPool /\ lp_balance = [u \in Users |-> 0]

NotInitializedErrors == {"PoolNotInitialized", "AccountNotInitialized"}

\* C22 (as claimed): add_liquidity of a nonzero amount on a pool whose
\* reserves are zero fails with a not-initialized error, an ordinary error
\* value, and leaves the pool as it was; it never divides by a zero reserve.
C22_AddOnEmptyPoolIsReported ==
    (LastIsAdd /\ last.sol_amount >= 1 /\ PreB = 0 /\ PreQ = 0) =>
        (last.result \in NotInitializedErrors /\ pool = last.pre)

C24_SupplyMatchesBalances ==
    /\ pool.lp_supply = SumBalances(lp_balance, Users)
    /\ (LastIsRemove /\ LastOk) =>
          /\ last.pre_balance[last.user] >= last.lp_amount
          /\ lp_balance[last.user] =
                 last.pre_balance[last.user] - last.lp_amount

\* C25: once is_initialized is true it is true in every later state, whatever
\* instruction runs and however it ends.
C25_InitializedForever ==
    [][pool.is_initialized => pool'.is_initialized]_vars

\* The whole supply was removed from an initialized pool, and the pool is
\* still initialized.
C25_Witness ==
    /\ LastIsRemove /\ LastOk /\ last.lp_mint = "lp_mint"
    /\ last.pre.is_initialized /\ last.pre.lp_supply >= 1
    /\ pool.lp_supply = 0 /\ pool.is_initialized

\* C26 (as claimed): in the pool of src/lib.rs, seeded from the minting
\* vault, no liquidity shares exist and no add-liquidity or remove-liquidity
\* instruction changes sol_reserve or token_reserve.
C26_LibReservesMoveOnlyBySwaps ==
    program = "lib" =>
        /\ pool.lp_supply = 0
        /\ SumBalances(lp_balance, Users) = 0
        /\ last.op \in LiquidityOps =>
              /\ pool.sol_reserve = last.pre.sol_reserve
              /\ pool.token_reserve = last.pre.token_reserve

\* C27: Scenario A.  From sol_reserve = 1,000,000 and token_reserve =
\* 1,000,000,000, swap_sol_for_tokens(1000, min 0) whose transfers go through
\* succeeds with fee 3, post-fee input 997 and output 996,006, and leaves
\* sol_reserve = 1,001,000 and token_reserve = 999,003,994.
ScenarioACall ==
    /\ last.op = "swap_sol_for_tokens"
    /\ last.pre.is_initialized
    /\ last.pre.sol_reserve = 1000000
    /\ last.pre.token_reserve = 1000000000
    /\ last.sol_amount = 1000 /\ last.min_token_amount = 0
    /\ last.result # "TransferFailed"

C27_ScenarioA ==
    ScenarioACall =>
        /\ last.result = "Ok"
        /\ last.fee_amount = 3
        /\ last.sol_amount - last.fee_amount = 997
        /\ last.token_amount = 996006
        /\ pool.sol_reserve = 1001000
        /\ pool.token_reserve = 999003994

\* The scenario's swap ran and was committed.
C27_Witness ==
    /\ ScenarioACall /\ last.result = "Ok"
    /\ pool.sol_reserve = 1001000 /\ pool.token_reserve = 999003994

Mirror(p) ==
    [p EXCEPT !.sol_reserve = p.token_reserve,
              !.token_reserve = p.sol_reserve]

SwapCompared ==
    /\ LastIsSwap /\ HandlerRan /\ last.result # "TransferFailed"

MirroredSwap ==
    IF last.op = "swap_tokens_for_sol"
    THEN RunSwapSol(program, Mirror(last.pre), last.token_amount,
                    last.min_sol_amount, 0)
    ELSE RunSwapTokens(program, Mirror(last.pre), last.sol_amount,
                       last.min_token_amount, 0)

C29_SwapDirectionsMirror ==
    SwapCompared =>
        /\ MirroredSwap.result = last.result
        /\ MirroredSwap.fee_amount = last.fee_amount
        /\ MirroredSwap.sol_amount = last.token_amount
        /\ MirroredSwap.token_amount = last.sol_amount
        /\ Mirror(Persist(Mirror(last.pre), MirroredSwap)) = pool

\* A token-to-SOL swap on a pool with different reserves paid out a
\* positive amount after a positive fee.
C29_Witness ==
    /\ last.op = "swap_tokens_for_sol" /\ LastOk
    /\ last.pre.sol_reserve # last.pre.token_reserve
    /\ last.fee_amount >= 1 /\ last.sol_amount >= 1
    /\ pool # last.pre

\* C30: the pool arithmetic of src/lib.rs and src/amm.rs is the same.  For
\* the same pool and the same arguments, the add, remove and swap handlers
\* of one file end as their counterparts of the other file end: the same
\* result, the same fee and amounts, the same stored reserves and
\* lp_supply.
PoolOps == LiquidityOps \cup SwapOps

TwinCompared ==
    /\ last.op \in PoolOps /\ HandlerRan
    /\ last.result # "TransferFailed"

\* What the other file's handler returns for the pool and the arguments of
\* the last instruction.
Twin ==
    IF last.op = "add_liquidity"
    THEN RunAdd(OtherProgram(program), last.pre, last.sol_amount,
                last.max_token_amount, last.min_lp_amount, 0)
    ELSE IF last.op = "remove_liquidity"
    THEN RunRemove(OtherProgram(program), last.pre, last.lp_amount,
                   last.min_sol_amount, last.min_token_amount, 0)
    ELSE IF last.op = "swap_sol_for_tokens"
    THEN RunSwapSol(OtherProgram(program), last.pre, last.sol_amount,
                    last.min_token_amount, 0)
    ELSE RunSwapTokens(OtherProgram(program), last.pre, last.token_amount,
                       last.min_sol_amount, 0)

C30_SameArithmeticInBothFiles ==
    TwinCompared =>
        /\ Twin.result = last.result
        /\ Twin.fee_amount = last.fee_amount
        /\ Twin.sol_amount = last.sol_amount
        /\ Twin.token_amount = last.token_amount
        /\ Twin.lp_amount = last.lp_amount
        /\ Twin.mem = last.mem
        /\ Persist(last.pre, Twin) = pool

\* swap_sol_to_tokens of src/lib.rs charged a fee and changed the pool.
C30_Witness ==
    /\ program = "lib" /\ last.op = "swap_sol_for_tokens" /\ LastOk
    /\ last.fee_amount >= 1 /\ last.token_amount >= 1
    /\ pool # last.pre /\ Twin.mem = pool

\* ------------------------------------------------- claims C31 to C37
\* C31 (as claimed): the recorded reserves equal what the pool holds:
\* token_reserve is the balance of the pool's token vault, sol_reserve the
\* net amount moved into the SOL vault, and the tokens a user pays in
\* add_liquidity or swap_tokens_for_sol are credited to the pool's vault.
PaysTokens == {"add_liquidity", "swap_tokens_for_sol"}

C31_ReservesMatchVaults ==
    /\ pool.token_reserve = vaults.token
    /\ pool.sol_reserve = vaults.sol
    /\ (last.op \in PaysTokens /\ LastOk) =>
          vaults.credited = "token_vault"

\* C32 (as claimed): in every state sol_reserve * token_reserve >=
\* lp_supply * lp_supply.
C32_ProductCoversSupply ==
    pool.sol_reserve * pool.token_reserve >= pool.lp_supply * pool.lp_supply

\* C33: a round trip never profits the trader.  After a successful
\* swap_sol_for_tokens(x) that paid y tokens from a pool with positive
\* reserves, a swap_tokens_for_sol(y) run at once on the pool it left, if it
\* succeeds, pays at most x SOL; and the same starting with tokens.
RoundTripStarted ==
    /\ LastIsSwap /\ LastOk
    /\ last.pre.sol_reserve >= 1 /\ last.pre.token_reserve >= 1

\* The swap back of what the last swap paid out, with no minimum.
ReturnSwap ==
    IF last.op = "swap_sol_for_tokens"
    THEN RunSwapTokens(program, pool, last.token_amount, 0, 0)
    ELSE RunSwapSol(program, pool, last.sol_amount, 0, 0)

C33_RoundTripNeverProfits ==
    (RoundTripStarted /\ ReturnSwap.result = "Ok") =>
        IF last.op = "swap_sol_for_tokens"
        THEN ReturnSwap.sol_amount <= last.sol_amount
        ELSE ReturnSwap.token_amount <= last.token_amount

\* A swap of SOL for tokens whose swap back succeeds and pays SOL.
C33_Witness ==
    /\ RoundTripStarted /\ last.op = "swap_sol_for_tokens"
    /\ last.fee_amount >= 1 /\ last.token_amount >= 1
    /\ ReturnSwap.result = "Ok"
    /\ ReturnSwap.sol_amount >= 1
    /\ ReturnSwap.sol_amount < last.sol_amount

\* C34 (as claimed): from every initialized state whose reserves are below
\* the integer maximum the pool can still trade: some swap with input >= 1
\* and no minimum, or some add_liquidity, succeeds when its transfers do.
CanTrade ==
    \E x \in 1..U64_MAX :
        \/ RunSwapSol(program, pool, x, 0, 0).result = "Ok"
        \/ RunSwapTokens(program, pool, x, 0, 0).result = "Ok"
        \/ RunAdd(program, pool, x, U64_MAX, 0, 0).result = "Ok"

C34_PoolCanStillTrade ==
    (/\ pool.is_initialized
     /\ pool.sol_reserve < U64_MAX
     /\ pool.token_reserve < U64_MAX) => CanTrade

\* C35 (as claimed): every successful add_liquidity with sol_amount >= 1
\* takes a token amount >= 1 and mints at least one liquidity share.
C35_AddTakesTokensAndMints ==
    (LastIsAdd /\ LastOk /\ last.sol_amount >= 1) =>
        /\ last.token_amount >= 1
        /\ last.lp_amount >= 1

\* C36 (as claimed): once the protocol state exists, its authority and
\* fee_lamports change only through instructions signed by the current
\* authority.
C36_OnlyAuthorityChangesProtocol ==
    (/\ protocol.last.pre.exists
     /\ \/ protocol.state.authority # protocol.last.pre.authority
        \/ protocol.state.fee_lamports # protocol.last.pre.fee_lamports) =>
        protocol.last.signer = protocol.last.pre.authority

\* C37: in a pool whose two reserves are both >= 1, no swap with input >= 1
\* fails with InsufficientLiquidity: the input less the fee is >= 1, the
\* pricing denominator (input-side reserve plus post-fee input) is > 0, and
\* the computed output is strictly less than the output-side reserve.
SwapOnPositiveReserves ==
    /\ LastIsSwap /\ HandlerRan /\ SwapInput >= 1
    /\ last.pre.sol_reserve >= 1 /\ last.pre.token_reserve >= 1

C37_NoInsufficientLiquidityOnPositiveReserves ==
    SwapOnPositiveReserves =>
        /\ last.result # "InsufficientLiquidity"
        /\ SwapInput - last.fee_amount >= 1
        /\ InReserveBefore + (SwapInput - last.fee_amount) > 0
        /\ SwapPaid < OutReserveBefore

\* A swap whose post-fee input is at least the whole output-side reserve and
\* at least the input-side reserve, priced and let through the liquidity
\* check: it pays a positive amount below the reserve.
C37_Witness ==
    /\ SwapOnPositiveReserves /\ LastOk
    /\ last.fee_amount >= 1
    /\ SwapInput - last.fee_amount >= OutReserveBefore
    /\ SwapInput - last.fee_amount >= InReserveBefore
    /\ SwapPaid >= 1

====
